---- MODULE Spec2Model ----
(***************************************************************************)
(* Model of the /api/scrape handler (scrape_site, src/main.py): the page   *)
(* is fetched, parsed into a BeautifulSoup tree and normalised into a      *)
(* bounded content document (title, description, hero, nav, sections,      *)
(* images).                                                                *)
(*                                                                         *)
(* Strings are sequences of one-character strings, so that strip() and     *)
(* the [:n] slices are computed rather than assumed.  A parsed document is *)
(* the sequence of its nodes in document order (the order of bs4's         *)
(* next_element chain); every node carries the index of its parent, 0      *)
(* being the BeautifulSoup object itself.                                  *)
(***************************************************************************)
EXTENDS Integers, Sequences, FiniteSets, TLC

VARIABLES url, doc, pc, title, description, hero_heading, hero_sub,
          nav_links, sections, images, data

vars == <<url, doc, pc, title, description, hero_heading, hero_sub,
          nav_links, sections, images, data>>

----------------------------------------------------------------------------
(* Python values *)

\* Optional[str]: None is the empty tuple, a value v is <<v>>
None == <<>>

Some(v) == <<v>>

\* characters str.strip() removes
WS == {" ", "\n", "\t"}

\* s[:n]
Slice(s, n) == SubSeq(s, 1, IF Len(s) < n THEN Len(s) ELSE n)

\* str.strip()
Strip(s) ==
  IF \A i \in 1..Len(s) : s[i] \in WS THEN <<>>
  ELSE LET first == CHOOSE i \in 1..Len(s) :
                      s[i] \notin WS /\ \A j \in 1..(i - 1) : s[j] \in WS
           last  == CHOOSE i \in 1..Len(s) :
                      s[i] \notin WS /\ \A j \in (i + 1)..Len(s) : s[j] \in WS
       IN SubSeq(s, first, last)

\* sep.join(parts)
RECURSIVE Join(_, _)
Join(sep, parts) ==
  IF parts = <<>> THEN <<>>
  ELSE IF Len(parts) = 1 THEN parts[1]
  ELSE parts[1] \o sep \o Join(sep, Tail(parts))

\* text.lower().startswith("#"): lower() leaves "#" alone
StartsWithHash(s) == Len(s) > 0 /\ s[1] = "#"

----------------------------------------------------------------------------
(* The parsed tree *)

TextTag == "#text"

\* a NavigableString
TextNode(s) ==
  [tag |-> TextTag, parent |-> 0, str |-> s, has |-> {},
   name |-> "", property |-> "", content |-> <<>>, href |-> <<>>,
   src |-> <<>>, alt |-> <<>>]

\* a Tag without attributes
Tag(t) == [TextNode(<<>>) EXCEPT !.tag = t]

IsTag(d, i) == d[i].tag # TextTag

\* the nodes of d after i that are inside i: i's descendants
SubEnd(d, i) ==
  IF \A k \in (i + 1)..Len(d) : d[k].parent >= i THEN Len(d)
  ELSE (CHOOSE k \in (i + 1)..Len(d) :
          d[k].parent < i /\ \A j \in (i + 1)..(k - 1) : d[j].parent >= i) - 1

\* the indices of lo..hi that are in S, in increasing order
RECURSIVE Pick(_, _, _)
Pick(lo, hi, S) ==
  IF lo > hi THEN <<>>
  ELSE IF lo \in S THEN <<lo>> \o Pick(lo + 1, hi, S)
  ELSE Pick(lo + 1, hi, S)

\* tag.find_all(t) for the tag at i (i = 0: the whole soup)
find_all(d, i, t) ==
  LET hi == IF i = 0 THEN Len(d) ELSE SubEnd(d, i)
  IN Pick(i + 1, hi, {k \in 1..Len(d) : d[k].tag = t})

\* soup.find(t): the index of the first such tag, 0 for None
find(d, t) ==
  LET all == find_all(d, 0, t) IN IF all = <<>> THEN 0 ELSE all[1]

\* tag.find_next(tags): the first later node, in document order, so tagged
find_next(d, i, tags) ==
  IF \A k \in (i + 1)..Len(d) : d[k].tag \notin tags THEN 0
  ELSE CHOOSE k \in (i + 1)..Len(d) :
         d[k].tag \in tags /\ \A j \in (i + 1)..(k - 1) : d[j].tag \notin tags

\* tag.next_siblings
next_siblings(d, i) ==
  Pick(i + 1, Len(d), {k \in 1..Len(d) : d[k].parent = d[i].parent})

\* tag.get_text(sep, strip=True): the stripped non-empty strings below the
\* tag, joined by sep
get_text(d, i, sep) ==
  LET idx == Pick(i + 1, SubEnd(d, i),
                  {k \in 1..Len(d) : d[k].tag = TextTag /\ Strip(d[k].str) # <<>>})
  IN Join(sep, [k \in 1..Len(idx) |-> Strip(d[idx[k]].str)])

\* tag.string: the only child when it is a string, the only child's .string
\* when it is a tag, None otherwise
RECURSIVE string(_, _)
string(d, i) ==
  LET kids == Pick(i + 1, SubEnd(d, i), {k \in 1..Len(d) : d[k].parent = i})
  IN IF Len(kids) # 1 THEN None
     ELSE IF d[kids[1]].tag = TextTag THEN Some(d[kids[1]].str)
     ELSE string(d, kids[1])

----------------------------------------------------------------------------
(* scrape_site, step by step *)

DefaultUrl == "https://qarakal.ai/"

\* "We build advanced quantitative computing and AI solutions."
DefaultBody ==
  <<"W","e"," ","b","u","i","l","d"," ","a","d","v","a","n","c","e","d"," ",
    "q","u","a","n","t","i","t","a","t","i","v","e"," ","c","o","m","p","u",
    "t","i","n","g"," ","a","n","d"," ","A","I"," ","s","o","l","u","t","i",
    "o","n","s",".">>

AboutTitle == <<"A","b","o","u","t">>

SubCap == 300

BodyCap == 1200

NavCap == 8

SectionCap == 6

ImageCap == 10

\* title = soup.title.string.strip() if soup.title and soup.title.string
\*         else None
TitleOf(d) ==
  LET t == find(d, "title")
  IN IF t # 0 /\ string(d, t) # None /\ string(d, t)[1] # <<>>
     THEN Some(Strip(string(d, t)[1]))
     ELSE None

\* soup.find("meta", attrs={key: value}), key being name or property
find_meta(d, key, value) ==
  LET Match(k) == /\ d[k].tag = "meta"
                  /\ key \in d[k].has
                  /\ (IF key = "name" THEN d[k].name ELSE d[k].property) = value
  IN IF \A k \in 1..Len(d) : ~Match(k) THEN 0
     ELSE CHOOSE k \in 1..Len(d) : Match(k) /\ \A j \in 1..(k - 1) : ~Match(j)

\* og_desc = find(name=description) or find(property=og:description);
\* description = og_desc["content"].strip() when og_desc.get("content")
DescriptionOf(d) ==
  LET m1 == find_meta(d, "name", "description")
      og_desc == IF m1 # 0 THEN m1
                 ELSE find_meta(d, "property", "og:description")
  IN IF og_desc # 0 /\ "content" \in d[og_desc].has /\ d[og_desc].content # <<>>
     THEN Some(Strip(d[og_desc].content))
     ELSE None

\* h1s = [h.get_text(strip=True) for h in soup.find_all("h1")]
h1s(d) ==
  LET all == find_all(d, 0, "h1")
  IN [k \in 1..Len(all) |-> get_text(d, all[k], <<>>)]

\* hero_heading = h1s[0] if h1s else title
HeroHeadingOf(d, t) == IF h1s(d) # <<>> THEN Some(h1s(d)[1]) ELSE t

\* hero_sub: set only under "if hero_heading:", "if first_h1:", "if sib_p:"
HeroSubOf(d, heading) ==
  LET first_h1 == find(d, "h1")
      sib_p == find_next(d, first_h1, {"p", "h2", "div"})
  IN IF heading # None /\ heading[1] # <<>> /\ first_h1 # 0 /\ sib_p # 0
     THEN Some(Slice(get_text(d, sib_p, <<>>), SubCap))
     ELSE None

\* find_all("a", href=True) below the tag at i (i = 0: the whole soup)
anchors_with_href(d, i) ==
  LET hi == IF i = 0 THEN Len(d) ELSE SubEnd(d, i)
  IN Pick(i + 1, hi, {k \in 1..Len(d) : d[k].tag = "a" /\ "href" \in d[k].has})

\* NavLoop testing the href, not the text, for a leading "#"
RECURSIVE NavLoopHrefHash(_, _, _)
NavLoopHrefHash(d, as, acc) ==
  IF as = <<>> THEN acc
  ELSE LET text == get_text(d, as[1], <<>>)
           href == Strip(d[as[1]].href)
       IN NavLoopHrefHash(d, Tail(as),
                          IF text # <<>> /\ href # <<>> /\ ~StartsWithHash(href)
                          THEN Append(acc, [label |-> text, href |-> href])
                          ELSE acc)

\* the loop over nav.find_all("a", href=True)
RECURSIVE NavLoop(_, _, _)
NavLoop(d, as, acc) ==
  IF as = <<>> THEN acc
  ELSE LET text == get_text(d, as[1], <<>>)
           href == Strip(d[as[1]].href)
       IN NavLoop(d, Tail(as),
                  IF text # <<>> /\ href # <<>> /\ ~StartsWithHash(text)
                  THEN Append(acc, [label |-> text, href |-> href])
                  ELSE acc)

\* the loop over soup.find_all("a", href=True)[:8]
RECURSIVE FallbackLoop(_, _, _)
FallbackLoop(d, as, acc) ==
  IF as = <<>> THEN acc
  ELSE LET text == get_text(d, as[1], <<>>)
           href == Strip(d[as[1]].href)
       IN FallbackLoop(d, Tail(as),
                       IF text # <<>>
                       THEN Append(acc, [label |-> text, href |-> href])
                       ELSE acc)

\* NavLinksOf falling back to the whole document when the nav yields nothing
NavLinksOfFallbackWhenEmpty(d) ==
  LET nav == find(d, "nav")
  IN IF nav # 0 /\ NavLoop(d, anchors_with_href(d, nav), <<>>) # <<>>
     THEN NavLoop(d, anchors_with_href(d, nav), <<>>)
     ELSE FallbackLoop(d, Slice(anchors_with_href(d, 0), NavCap), <<>>)

\* nav_links
NavLinksOf(d) ==
  LET nav == find(d, "nav")
  IN IF nav # 0 THEN NavLoop(d, anchors_with_href(d, nav), <<>>)
     ELSE FallbackLoop(d, Slice(anchors_with_href(d, 0), NavCap), <<>>)

\* SiblingLoop without the break at the next h2
RECURSIVE SiblingLoopNoBreak(_, _, _)
SiblingLoopNoBreak(d, sibs, content_parts) ==
  IF sibs = <<>> THEN content_parts
  ELSE LET text == get_text(d, sibs[1], <<" ">>)
       IN SiblingLoopNoBreak(d, Tail(sibs),
                             IF d[sibs[1]].tag \in {"p", "h3", "ul", "ol", "div"}
                                /\ text # <<>>
                             THEN Append(content_parts, text)
                             ELSE content_parts)

\* the loop over h2.next_siblings: stops at an h2, keeps the non-empty text
\* of p, h3, ul, ol, div
RECURSIVE SiblingLoop(_, _, _)
SiblingLoop(d, sibs, content_parts) ==
  IF sibs = <<>> THEN content_parts
  ELSE IF d[sibs[1]].tag = "h2" THEN content_parts
  ELSE LET text == get_text(d, sibs[1], <<" ">>)
       IN SiblingLoop(d, Tail(sibs),
                      IF d[sibs[1]].tag \in {"p", "h3", "ul", "ol", "div"}
                         /\ text # <<>>
                      THEN Append(content_parts, text)
                      ELSE content_parts)

\* one section: the body is "\n".join(content_parts)[:1200]
SectionOf(d, h2) ==
  [title |-> get_text(d, h2, <<>>),
   body  |-> Slice(Join(<<"\n">>, SiblingLoop(d, next_siblings(d, h2), <<>>)),
                   BodyCap)]

\* sections: one per soup.find_all("h2")
SectionsOf(d) ==
  LET all == find_all(d, 0, "h2")
  IN [k \in 1..Len(all) |-> SectionOf(d, all[k])]

\* the loop over soup.find_all("img")
RECURSIVE ImageLoop(_, _, _)
ImageLoop(d, imgs, acc) ==
  IF imgs = <<>> THEN acc
  ELSE LET src == IF "src" \in d[imgs[1]].has THEN Some(d[imgs[1]].src) ELSE None
           alt == IF "alt" \in d[imgs[1]].has THEN d[imgs[1]].alt ELSE <<>>
       IN ImageLoop(d, Tail(imgs),
                    IF src # None /\ src[1] # <<>>
                    THEN Append(acc, [src |-> src[1], alt |-> alt])
                    ELSE acc)

\* images = images[:10]
ImagesOf(d) == Slice(ImageLoop(d, find_all(d, 0, "img"), <<>>), ImageCap)

\* AboutBody ignoring the description
AboutBodyDefaultOnly(desc) == DefaultBody

\* description or "We build ..."
AboutBody(desc) == IF desc # None /\ desc[1] # <<>> THEN desc[1] ELSE DefaultBody

\* the returned dict
DataOf(target, t, desc, heading, sub, nav, secs, imgs) ==
  [source      |-> target,
   title       |-> t,
   description |-> desc,
   hero        |-> [heading |-> heading, subheading |-> sub],
   nav         |-> Slice(nav, NavCap),
   sections    |-> IF secs # <<>> THEN Slice(secs, SectionCap)
                   ELSE <<[title |-> AboutTitle, body |-> AboutBody(desc)]>>,
   images      |-> imgs]

----------------------------------------------------------------------------
(* Building trees: a fragment is a forest in document order whose parent  *)
(* indices are relative to the fragment, 0 being the place it hangs from. *)

\* the fragment f followed by the fragment g
Cat(f, g) ==
  f \o [k \in 1..Len(g) |->
          [g[k] EXCEPT !.parent = IF @ = 0 THEN 0 ELSE @ + Len(f)]]

\* the concatenation of a sequence of fragments
RECURSIVE CatAll(_)
CatAll(fs) == IF fs = <<>> THEN <<>> ELSE Cat(fs[1], CatAll(Tail(fs)))

\* the tag n with the fragment kids as its contents
Elem(n, kids) ==
  <<n>> \o [k \in 1..Len(kids) |-> [kids[k] EXCEPT !.parent = @ + 1]]

\* <t>s</t>
TextElem(t, s) == Elem(Tag(t), <<TextNode(s)>>)

\* f, n times over
RECURSIVE Rep(_, _)
Rep(f, n) == IF n = 0 THEN <<>> ELSE Cat(f, Rep(f, n - 1))

\* <a href=h>t</a>; no string child when t is empty
Anchor(t, h) ==
  Elem([Tag("a") EXCEPT !.has = {"href"}, !.href = h],
       IF t = <<>> THEN <<>> ELSE <<TextNode(t)>>)

\* <meta name=description content=c>
MetaName(c) ==
  <<[Tag("meta") EXCEPT !.has = {"name", "content"}, !.name = "description",
                        !.content = c]>>

\* <meta property=og:description content=c>
MetaOg(c) ==
  <<[Tag("meta") EXCEPT !.has = {"property", "content"},
                        !.property = "og:description", !.content = c]>>

\* <img src=s alt=a>
Img(s, a) == <<[Tag("img") EXCEPT !.has = {"src", "alt"}, !.src = s, !.alt = a]>>

\* <html><head>h</head><body>b</body></html>
Page(h, b) == Elem(Tag("html"), Cat(Elem(Tag("head"), h), Elem(Tag("body"), b)))

\* the sequences over S of length at most n
SeqsUpTo(S, n) == UNION {[1..k -> S] : k \in 0..n}

\* n characters "a", with a space at each position of sp
Long(n, sp) == [i \in 1..n |-> IF i \in sp THEN " " ELSE "a"]

----------------------------------------------------------------------------
(* The input pages *)

MaxBlocks == 2

OtherUrl == "https://example.org/"

tA == <<"a">>

tB == <<" ", "b", " ">>

tBlank == <<" ">>

\* the contents of <head>: a title or none, a description or none
Titles ==
  { <<>>, <<Tag("title")>>, TextElem("title", tBlank), TextElem("title", tB),
    Elem(Tag("title"), <<Tag("b")>>) }

Metas ==
  { <<>>, MetaName(tB), MetaOg(tA), MetaName(tBlank),
    MetaName(Long(BodyCap + 1, {})),
    Cat(<<[Tag("meta") EXCEPT !.has = {"name"}, !.name = "description"]>>,
        MetaOg(tA)) }

Heads == {Cat(t, m) : t \in Titles, m \in Metas}

\* blocks of <body> around the first heading
HeroBlocks ==
  { TextElem("h1", tA), <<Tag("h1")>>, TextElem("p", tB), <<Tag("p")>>,
    TextElem("span", tA), TextElem("h2", tB),
    TextElem("div", Long(SubCap + 1, {SubCap})),
    <<[Tag("img") EXCEPT !.has = {"src"}, !.src = tB]>> }

Pages == {Page(h, CatAll(b)) : h \in Heads, b \in SeqsUpTo(HeroBlocks, MaxBlocks)}

MaxNavItems == 2

tHash == <<"#", "a">>

tHref == <<" ", "/", "x", " ">>

\* anchors: a valid one, one whose text starts with "#", one without text,
\* one whose href is blank, one without href, and runs of NavCap anchors
aValid == Anchor(tB, tHref)

aHashText == Anchor(tHash, tHref)

aNoText == Anchor(<<>>, tHref)

aBlankHref == Anchor(tA, tBlank)

aNoHref == TextElem("a", tA)

aRun == Rep(Anchor(<<"c">>, <<"/", "c">>), NavCap)

aNoTextRun == Rep(aNoText, NavCap)

NavItems == {aValid, aHashText, aNoText, aBlankHref, aNoHref, aRun}

OuterItems ==
  {aValid, aHashText, aNoText, aBlankHref, aNoHref, aRun, aNoTextRun,
   Elem(Tag("nav"), Anchor(tA, <<"/", "z">>))}

\* pages with at most one block before and one after an optional <nav>
NavPages ==
  {Page(<<>>, Cat(CatAll(pre), Cat(nav, CatAll(post)))) :
     pre \in SeqsUpTo(OuterItems, 1),
     nav \in {<<>>} \cup {Elem(Tag("nav"), CatAll(in)) :
                            in \in SeqsUpTo(NavItems, MaxNavItems)},
     post \in SeqsUpTo(OuterItems, 1)}

MaxSecBlocks == 3

\* blocks of <body> around second-level headings
SectionBlocks ==
  { TextElem("h2", tB), TextElem("p", tA), <<Tag("p")>>,
    TextElem("span", <<"s">>), TextElem("h3", <<"t">>), <<TextNode(tA)>>,
    Elem(Tag("ul"), Cat(TextElem("li", <<"x">>), TextElem("li", <<"y">>))),
    Elem(Tag("div"), Cat(TextElem("h2", <<"n">>), TextElem("p", <<"m">>))),
    TextElem("p", Long(BodyCap + 5, {BodyCap})),
    Rep(Cat(TextElem("h2", <<"r">>), TextElem("ol", <<"q">>)), SectionCap + 1) }

SectionPages ==
  {Page(TextElem("title", tA), CatAll(b)) :
     b \in SeqsUpTo(SectionBlocks, MaxSecBlocks)}

\* the strings of the Acme page
sAcme == <<"A", "c", "m", "e">>

sWeBuildThings == <<"W", "e", " ", "b", "u", "i", "l", "d", " ", "t", "h", "i", "n", "g", "s">>

sAbout == <<"A", "b", "o", "u", "t">>

sSlashAbout == <<"/", "a", "b", "o", "u", "t">>

sJump == <<"J", "u", "m", "p">>

sHashTop == <<"#", "t", "o", "p">>

sWelcome == <<"W", "e", "l", "c", "o", "m", "e">>

sLeadingPlatform == <<"L", "e", "a", "d", "i", "n", "g", " ", "p", "l", "a", "t", "f", "o", "r", "m", ".">>

sServices == <<"S", "e", "r", "v", "i", "c", "e", "s">>

sWeDoX == <<"W", "e", " ", "d", "o", " ", "X", ".">>

sContact == <<"C", "o", "n", "t", "a", "c", "t">>

sReachUs == <<"R", "e", "a", "c", "h", " ", "u", "s", ".">>

\* <title>Acme</title> and <meta name="description" content="We build things">
AcmeHead == <<TextElem("title", sAcme), MetaName(sWeBuildThings)>>

\* the seven blocks of the Acme <body>
AcmeBody ==
  << Elem(Tag("nav"), Cat(Anchor(sAbout, sSlashAbout), Anchor(sJump, sHashTop))),
     TextElem("h1", sWelcome), TextElem("p", sLeadingPlatform),
     TextElem("h2", sServices), TextElem("p", sWeDoX),
     TextElem("h2", sContact), TextElem("p", sReachUs) >>

\* the blocks of fs whose index is in S
Sub(fs, S) == LET ks == Pick(1, Len(fs), S) IN [i \in 1..Len(ks) |-> fs[ks[i]]]

AcmePage == Page(CatAll(AcmeHead), CatAll(AcmeBody))

\* the Acme page and the pages that keep some of its blocks
AcmePages ==
  {Page(CatAll(Sub(AcmeHead, H)), CatAll(Sub(AcmeBody, B))) :
     H \in SUBSET (1..Len(AcmeHead)), B \in SUBSET (1..Len(AcmeBody))}

----------------------------------------------------------------------------
(* The handler as a state machine *)

InitLocals ==
  /\ pc = "start"
  /\ title = None
  /\ description = None
  /\ hero_heading = None
  /\ hero_sub = None
  /\ nav_links = <<>>
  /\ sections = <<>>
  /\ images = <<>>
  /\ data = None

Init ==
  /\ url \in {None, Some(OtherUrl)}
  /\ doc \in Pages
  /\ InitLocals

\* requests.get or raise_for_status raises: HTTPException 502
FetchFail ==
  /\ pc = "start"
  /\ pc' = "http502"
  /\ UNCHANGED <<url, doc, title, description, hero_heading, hero_sub,
                 nav_links, sections, images, data>>

\* the page is fetched and parsed
FetchOk ==
  /\ pc = "start"
  /\ pc' = "title"
  /\ UNCHANGED <<url, doc, title, description, hero_heading, hero_sub,
                 nav_links, sections, images, data>>

TitleMeta ==
  /\ pc = "title"
  /\ title' = TitleOf(doc)
  /\ description' = DescriptionOf(doc)
  /\ pc' = "hero"
  /\ UNCHANGED <<url, doc, hero_heading, hero_sub, nav_links, sections,
                 images, data>>

Hero ==
  /\ pc = "hero"
  /\ hero_heading' = HeroHeadingOf(doc, title)
  /\ hero_sub' = HeroSubOf(doc, HeroHeadingOf(doc, title))
  /\ pc' = "nav"
  /\ UNCHANGED <<url, doc, title, description, nav_links, sections, images,
                 data>>

Nav ==
  /\ pc = "nav"
  /\ nav_links' = NavLinksOf(doc)
  /\ pc' = "sections"
  /\ UNCHANGED <<url, doc, title, description, hero_heading, hero_sub,
                 sections, images, data>>

Sections ==
  /\ pc = "sections"
  /\ sections' = SectionsOf(doc)
  /\ pc' = "images"
  /\ UNCHANGED <<url, doc, title, description, hero_heading, hero_sub,
                 nav_links, images, data>>

Images ==
  /\ pc = "images"
  /\ images' = ImagesOf(doc)
  /\ pc' = "return"
  /\ UNCHANGED <<url, doc, title, description, hero_heading, hero_sub,
                 nav_links, sections, data>>

Return ==
  /\ pc = "return"
  /\ data' = Some(DataOf(IF url # None THEN url[1] ELSE DefaultUrl, title,
                         description, hero_heading, hero_sub, nav_links,
                         sections, images))
  /\ pc' = "done"
  /\ UNCHANGED <<url, doc, title, description, hero_heading, hero_sub,
                 nav_links, sections, images>>

Next ==
  \/ FetchFail
  \/ FetchOk
  \/ TitleMeta
  \/ Hero
  \/ Nav
  \/ Sections
  \/ Images
  \/ Return

Spec == Init /\ [][Next]_vars

InitNav ==
  /\ url = None
  /\ doc \in NavPages
  /\ InitLocals

SpecNav == InitNav /\ [][Next]_vars

InitSections ==
  /\ url = None
  /\ doc \in SectionPages
  /\ InitLocals

SpecSections == InitSections /\ [][Next]_vars

InitAcme ==
  /\ url = None
  /\ doc \in AcmePages
  /\ InitLocals

SpecAcme == InitAcme /\ [][Next]_vars

Done == pc = "done"

\* the returned document
Out == data[1]

----------------------------------------------------------------------------
(* Vocabulary of the properties *)

HasTag(d, t) == \E k \in 1..Len(d) : d[k].tag = t

\* the first node of d tagged t
FirstTag(d, t) == CHOOSE k \in 1..Len(d) : d[k].tag = t /\ \A j \in 1..(k - 1) : d[j].tag # t

Min(a, b) == IF a < b THEN a ELSE b

Trimmed(s) == s = <<>> \/ (s[1] \notin WS /\ s[Len(s)] \notin WS)

\* the configured ceiling on the size of the raw markup
SizeCeiling == 1024

\* the length of the markup of one node
NodeLen(n) ==
  IF n.tag = TextTag THEN Len(n.str)
  ELSE (IF n.tag \in {"meta", "img"} THEN 2 ELSE 5) + Len(n.tag)
       + (IF "content" \in n.has THEN 11 + Len(n.content) ELSE 0)
       + (IF "href" \in n.has THEN 8 + Len(n.href) ELSE 0)
       + (IF "src" \in n.has THEN 7 + Len(n.src) ELSE 0)
       + (IF "alt" \in n.has THEN 7 + Len(n.alt) ELSE 0)
       + (IF "name" \in n.has THEN 8 + Len(n.name) ELSE 0)
       + (IF "property" \in n.has THEN 12 + Len(n.property) ELSE 0)

\* the length of resp.text
RECURSIVE RawLen(_)
RawLen(d) == IF d = <<>> THEN 0 ELSE NodeLen(d[1]) + RawLen(Tail(d))

----------------------------------------------------------------------------
(* C1: the returned document satisfies the four size bounds at once: at    *)
(* most 8 nav entries, 6 sections, 10 images, and at most 1200 characters  *)
(* in the body of every section, the synthetic "About" one included.       *)
C1_SizeBounds ==
  Done =>
    /\ Len(Out.nav) <= 8
    /\ Len(Out.sections) <= 6
    /\ Len(Out.images) <= 10
    /\ \A i \in 1..Len(Out.sections) : Len(Out.sections[i].body) <= 1200

(* C2: sections is never empty.  Without an h2 it is the single entry      *)
(* "About" whose body is the extracted (non-empty) description, or the     *)
(* default sentence when none was extracted; with an h2 the entries are    *)
(* those of the h2 elements, the synthetic one not being emitted.          *)
C2_AtLeastOneSection ==
  Done =>
    /\ Len(Out.sections) >= 1
    /\ ~HasTag(doc, "h2") =>
         Out.sections =
           <<[title |-> AboutTitle,
              body  |-> IF Out.description # None /\ Out.description[1] # <<>>
                        THEN Out.description[1] ELSE DefaultBody]>>
    /\ HasTag(doc, "h2") =>
         LET n == Cardinality({k \in 1..Len(doc) : doc[k].tag = "h2"})
         IN /\ Len(Out.sections) = Min(n, 6)
            /\ Out.sections[1].title = get_text(doc, FirstTag(doc, "h2"), <<>>)

C2_Witness ==
  /\ Done
  /\ ~HasTag(doc, "h2")
  /\ Out.description # None
  /\ Out.description[1] # <<>>
  /\ Out.sections[1].body = Out.description[1]

(* C3: a normalized document is returned only for markup at or below the   *)
(* size ceiling; above it the call fails and returns nothing.              *)
C3_InputTooLarge == Done => RawLen(doc) <= SizeCeiling

(* C5: title, description, hero.heading and hero.subheading are each       *)
(* absent or a non-empty string, never the empty string.                   *)
C5_AbsentNotEmpty ==
  Done =>
    /\ Out.title # Some(<<>>)
    /\ Out.description # Some(<<>>)
    /\ Out.hero.heading # Some(<<>>)
    /\ Out.hero.subheading # Some(<<>>)

(* C6: hero.heading is the text of the first h1 if there is one, else the  *)
(* title, else absent; hero.subheading is computed exactly when an h1      *)
(* exists: the text, cut to 300 characters, of the nearest p, h2 or div    *)
(* after the first h1, absent when there is none or no h1.                 *)
C6_Hero ==
  Done =>
    LET h1 == FirstTag(doc, "h1")
        after == {k \in 1..Len(doc) : k > h1 /\ doc[k].tag \in {"p", "h2", "div"}}
        near == CHOOSE k \in after : \A j \in after : k <= j
    IN /\ Out.hero.heading =
            IF HasTag(doc, "h1") THEN Some(get_text(doc, h1, <<>>))
            ELSE Out.title
       /\ Out.hero.subheading =
            IF HasTag(doc, "h1") /\ after # {}
            THEN Some(Slice(get_text(doc, near, <<>>), 300))
            ELSE None

\* anchor k of d has visible text and a non-empty href
Qualifies(d, k) ==
  /\ d[k].tag = "a"
  /\ "href" \in d[k].has
  /\ Strip(d[k].href) # <<>>
  /\ get_text(d, k, <<>>) # <<>>

\* node k of d is inside node i
RECURSIVE Inside(_, _, _)
Inside(d, k, i) ==
  d[k].parent # 0 /\ (d[k].parent = i \/ Inside(d, d[k].parent, i))

\* the entry of anchor k
Entry(d, k) == [label |-> get_text(d, k, <<>>), href |-> Strip(d[k].href)]

\* s lists the entries of the first cap anchors of Q, in document order
ListsFirst(d, s, Q, cap) ==
  /\ Len(s) = Min(cap, Cardinality(Q))
  /\ \A i \in 1..Len(s) :
       \E k \in Q : Cardinality({j \in Q : j < k}) = i - 1 /\ s[i] = Entry(d, k)

(* C7: without a nav element, nav is the first 8, in document order, of    *)
(* the anchors of the document that have a non-empty href and non-empty    *)
(* text; other anchors neither appear nor use up one of the 8 places.      *)
C7_NavFallback ==
  (Done /\ ~HasTag(doc, "nav")) =>
    ListsFirst(doc, Out.nav, {k \in 1..Len(doc) : Qualifies(doc, k)}, 8)

(* C8: with a nav element, nav is the first 8, in document order, of the   *)
(* anchors inside the first nav that have a non-empty trimmed href and     *)
(* non-empty text not beginning with "#"; anchors outside the nav never    *)
(* appear and the document-wide fallback is not used.                      *)
C8_NavPrimary ==
  (Done /\ HasTag(doc, "nav")) =>
    ListsFirst(doc, Out.nav,
               {k \in 1..Len(doc) :
                  /\ Qualifies(doc, k)
                  /\ Inside(doc, k, FirstTag(doc, "nav"))
                  /\ get_text(doc, k, <<>>)[1] # "#"}, 8)

C8_Witness ==
  /\ Done
  /\ HasTag(doc, "nav")
  /\ Len(Out.nav) >= 1
  /\ \E k \in 1..Len(doc) :
       /\ Qualifies(doc, k)
       /\ Inside(doc, k, FirstTag(doc, "nav"))
       /\ get_text(doc, k, <<>>)[1] = "#"
  /\ \E k \in 1..Len(doc) :
       Qualifies(doc, k) /\ ~Inside(doc, k, FirstTag(doc, "nav"))

\* the siblings after h2 h, up to the next sibling that is an h2, that are a
\* p, h3, ul, ol or div (all of them, or only those with text)
Walked(d, h, all) ==
  {k \in 1..Len(d) :
     /\ k > h
     /\ d[k].parent = d[h].parent
     /\ \A j \in (h + 1)..k : ~(d[j].parent = d[h].parent /\ d[j].tag = "h2")
     /\ d[k].tag \in {"p", "h3", "ul", "ol", "div"}
     /\ (all \/ get_text(d, k, <<" ">>) # <<>>)}

\* the section of h2 h
ExpectedSection(d, h, all) ==
  LET ks == Pick(1, Len(d), Walked(d, h, all))
  IN [title |-> get_text(d, h, <<>>),
      body  |-> Slice(Join(<<"\n">>,
                           [i \in 1..Len(ks) |-> get_text(d, ks[i], <<" ">>)]),
                      1200)]

\* one section per h2, the first 6
ExpectedSections(d, all) ==
  LET hs == Pick(1, Len(d), {k \in 1..Len(d) : d[k].tag = "h2"})
  IN Slice([i \in 1..Len(hs) |-> ExpectedSection(d, hs[i], all)], 6)

(* C9 as stated: with an h2, sections is the first 6 of one section per    *)
(* h2, titled by the h2's text, whose body joins with newlines the text of *)
(* every following sibling before the next h2 sibling that is a p, h3, ul, *)
(* ol or div, cut to 1200 characters.                                      *)
C9_Original ==
  (Done /\ HasTag(doc, "h2")) => Out.sections = ExpectedSections(doc, TRUE)

(* C9 as amended: the same, the body joining only those of these siblings  *)
(* whose text is not empty.                                                *)
C9_Sections ==
  (Done /\ HasTag(doc, "h2")) => Out.sections = ExpectedSections(doc, FALSE)

C9_Witness ==
  /\ Done
  /\ HasTag(doc, "h2")
  /\ ExpectedSections(doc, TRUE) # ExpectedSections(doc, FALSE)
  /\ \E i \in 1..Len(Out.sections) : Out.sections[i].body # <<>>

(* C10: every text field present in the returned document has no leading   *)
(* and no trailing whitespace, also after the cuts at 300 and 1200.        *)
C10_Trimmed ==
  Done =>
    /\ \A f \in {Out.title, Out.description, Out.hero.heading,
                 Out.hero.subheading} : f # None => Trimmed(f[1])
    /\ \A i \in 1..Len(Out.nav) :
         Trimmed(Out.nav[i].label) /\ Trimmed(Out.nav[i].href)
    /\ \A i \in 1..Len(Out.sections) :
         Trimmed(Out.sections[i].title) /\ Trimmed(Out.sections[i].body)
    /\ \A i \in 1..Len(Out.images) :
         Trimmed(Out.images[i].src) /\ Trimmed(Out.images[i].alt)

\* the Acme result but for nav
AcmeRest ==
  /\ Out.title = Some(sAcme)
  /\ Out.description = Some(sWeBuildThings)
  /\ Out.hero = [heading |-> Some(sWelcome), subheading |-> Some(sLeadingPlatform)]
  /\ Out.sections = <<[title |-> sServices, body |-> sWeDoX],
                      [title |-> sContact, body |-> sReachUs]>>
  /\ Out.images = <<>>

(* C4 as stated: the Acme page yields title "Acme", description "We build  *)
(* things", nav = [About -> /about] without the "Jump" anchor, hero        *)
(* Welcome / Leading platform., the sections Services and Contact, and no  *)
(* image.                                                                  *)
C4_Original ==
  (Done /\ doc = AcmePage) =>
    /\ AcmeRest
    /\ Out.nav = <<[label |-> sAbout, href |-> sSlashAbout]>>

(* C4 as amended: the same result, nav holding both anchors of the nav     *)
(* element, About -> /about and Jump -> #top, in that order.               *)
C4_Scenario ==
  (Done /\ doc = AcmePage) =>
    /\ AcmeRest
    /\ Out.nav = <<[label |-> sAbout, href |-> sSlashAbout],
                   [label |-> sJump, href |-> sHashTop]>>

C4_Witness == Done /\ doc = AcmePage /\ Len(Out.nav) = 2

====
